---- MODULE Spec2Model ----
(***************************************************************************)
(* Model of lambda/index.py: the Lambda handler that relays a chat message *)
(* to a FastAPI inference endpoint and wraps the answer (or any failure)   *)
(* in a fixed response envelope.                                           *)
(*                                                                         *)
(* JSON documents are Python values tagged by type; texts are TLA+ strings *)
(* built the way json.dumps builds them; exceptions are records carrying   *)
(* the Python exception class and its argument.                            *)
(***************************************************************************)
EXTENDS Integers, Sequences, FiniteSets, TLC

VARIABLES FASTAPI_ENDPOINT_URL, pc, event, remote, message, conversation_history,
          posts, stdout, error, result, remembered

vars == <<FASTAPI_ENDPOINT_URL, pc, event, remote, message, conversation_history,
          posts, stdout, error, result, remembered>>

(***************************************************************************)
(* Bounds.                                                                 *)
(***************************************************************************)
\* Longest conversation history carried by a sample request or reply.
MaxTurns == 1
\* Invocations counted after the one an observer keeps for comparison.
MaxSince == 2

(***************************************************************************)
(* Python values as parsed from / serialised to JSON.                      *)
(***************************************************************************)
JNull == [t |-> "null"]
JBool(b) == [t |-> "bool", b |-> b]
JNum(n) == [t |-> "num", n |-> n]
JStr(s) == [t |-> "str", s |-> s]
JList(l) == [t |-> "list", l |-> l]
\* A dict keeps its items in insertion order: a sequence of <<key, value>>.
JDict(items) == [t |-> "dict", items |-> items]

Has(d, k) == \E i \in 1..Len(d.items) : d.items[i][1] = k
Lookup(d, k) == d.items[CHOOSE i \in 1..Len(d.items) : d.items[i][1] = k][2]

\* type(v).__name__
PyTypeName(v) ==
  CASE v.t = "null" -> "NoneType"
    [] v.t = "bool" -> "bool"
    [] v.t = "num" -> "int"
    [] v.t = "str" -> "str"
    [] v.t = "list" -> "list"
    [] v.t = "dict" -> "dict"

\* bool(v): None, False, 0, "", [] and {} are falsy.
Truthy(v) ==
  CASE v.t = "null" -> FALSE
    [] v.t = "bool" -> v.b
    [] v.t = "num" -> v.n # 0
    [] v.t = "str" -> v.s # ""
    [] v.t = "list" -> v.l # <<>>
    [] v.t = "dict" -> v.items # <<>>

(***************************************************************************)
(* Exceptions and the results of steps that may raise.                     *)
(***************************************************************************)
Exc(type, arg) == [type |-> type, arg |-> arg]
Ok(v) == [ok |-> TRUE, val |-> v]
Raise(type, arg) == [ok |-> FALSE, exc |-> Exc(type, arg)]

\* The chain of base classes of each exception class the handler can meet.
Bases(type) ==
  CASE type = "HTTPError" -> {"HTTPError", "URLError", "OSError", "Exception"}
    [] type = "URLError" -> {"URLError", "OSError", "Exception"}
    [] type = "TimeoutError" -> {"TimeoutError", "OSError", "Exception"}
    [] type = "JSONDecodeError" -> {"JSONDecodeError", "ValueError", "Exception"}
    [] type = "UnicodeDecodeError" -> {"UnicodeDecodeError", "ValueError", "Exception"}
    [] type = "ValueError" -> {"ValueError", "Exception"}
    [] type = "KeyError" -> {"KeyError", "LookupError", "Exception"}
    [] type = "TypeError" -> {"TypeError", "Exception"}
    [] type = "AttributeError" -> {"AttributeError", "Exception"}
    [] OTHER -> {type, "Exception"}

IsInstance(exc, class) == class \in Bases(exc.type)

\* str(error): a KeyError shows the repr of its key, the others their argument.
ExcStr(exc) == IF exc.type = "KeyError" THEN "'" \o exc.arg \o "'" ELSE exc.arg

(***************************************************************************)
(* json.dumps (default separators, ensure_ascii) and json.loads.           *)
(***************************************************************************)
\* Splitting the text in halves keeps the recursion shallow on long texts.
EscapeChar(c) == IF c = "\"" THEN "\\\"" ELSE IF c = "\\" THEN "\\\\" ELSE c
RECURSIVE JsonEscape(_)
JsonEscape(s) ==
  IF Len(s) = 0 THEN ""
  ELSE IF Len(s) = 1 THEN EscapeChar(s)
  ELSE LET h == Len(s) \div 2
       IN  JsonEscape(SubSeq(s, 1, h)) \o JsonEscape(SubSeq(s, h + 1, Len(s)))

RECURSIVE JsonDumps(_)
RECURSIVE DumpsList(_)
RECURSIVE DumpsItems(_)
JsonDumps(v) ==
  CASE v.t = "null" -> "null"
    [] v.t = "bool" -> IF v.b THEN "true" ELSE "false"
    [] v.t = "num" -> ToString(v.n)
    [] v.t = "str" -> "\"" \o JsonEscape(v.s) \o "\""
    [] v.t = "list" -> "[" \o DumpsList(v.l) \o "]"
    [] v.t = "dict" -> "{" \o DumpsItems(v.items) \o "}"
DumpsList(l) ==
  IF l = <<>> THEN ""
  ELSE JsonDumps(Head(l)) \o (IF Len(l) > 1 THEN ", " ELSE "") \o DumpsList(Tail(l))
DumpsItems(items) ==
  IF items = <<>> THEN ""
  ELSE "\"" \o JsonEscape(Head(items)[1]) \o "\": " \o JsonDumps(Head(items)[2])
       \o (IF Len(items) > 1 THEN ", " ELSE "") \o DumpsItems(Tail(items))

\* str(v) as print and f-strings show it; repr(v) for what sits inside a container.
RECURSIVE PyRepr(_)
RECURSIVE ReprList(_)
RECURSIVE ReprItems(_)
PyRepr(v) ==
  CASE v.t = "null" -> "None"
    [] v.t = "bool" -> IF v.b THEN "True" ELSE "False"
    [] v.t = "num" -> ToString(v.n)
    [] v.t = "str" -> "'" \o v.s \o "'"
    [] v.t = "list" -> "[" \o ReprList(v.l) \o "]"
    [] v.t = "dict" -> "{" \o ReprItems(v.items) \o "}"
ReprList(l) ==
  IF l = <<>> THEN ""
  ELSE PyRepr(Head(l)) \o (IF Len(l) > 1 THEN ", " ELSE "") \o ReprList(Tail(l))
ReprItems(items) ==
  IF items = <<>> THEN ""
  ELSE "'" \o Head(items)[1] \o "': " \o PyRepr(Head(items)[2])
       \o (IF Len(items) > 1 THEN ", " ELSE "") \o ReprItems(Tail(items))

PyStr(v) == IF v.t = "str" THEN v.s ELSE PyRepr(v)

(***************************************************************************)
(* Sample documents: what requests and replies are drawn from.             *)
(***************************************************************************)
Absent == [t |-> "absent"]
OptItem(k, v) == IF v = Absent THEN <<>> ELSE << <<k, v>> >>

Turn == JDict(<< <<"role", JStr("user")>>, <<"content", JStr("hi")>> >>)
Histories == { JList([i \in 1..n |-> Turn]) : n \in 0..MaxTurns }
HistoryFields == {Absent, JNull} \cup Histories

ChatRequest(m, h) == JDict(OptItem("message", m) \o OptItem("conversationHistory", h))
RequestDocs ==
  { ChatRequest(JStr("hi"), h) : h \in HistoryFields }
    \cup { ChatRequest(Absent, Absent), JStr("message"), JList(<<>>) }

InferenceResponse(s, r, h) ==
  JDict(OptItem("success", s) \o OptItem("response", r) \o OptItem("conversationHistory", h))
SuccessFields == {Absent, JBool(TRUE), JBool(FALSE), JNum(1), JNum(0)}
ResponseFields == {Absent, JStr("hello"), JNull}
ReplyDocs ==
  { InferenceResponse(s, r, Absent) : s \in SuccessFields, r \in ResponseFields }
    \cup { InferenceResponse(s, r, h) :
             s \in {JBool(TRUE), JNum(1)}, r \in {JStr("hello"), JNull}, h \in HistoryFields }
    \cup { JList(<<>>), JStr("ok"), JNull, JNum(5) }

JsonUniverse == RequestDocs \cup ReplyDocs
DumpsOf == [v \in JsonUniverse |-> JsonDumps(v)]

\* Documents written without json.dumps' spaces, as other producers write them.
CompactDocs ==
  ("{\"success\":true,\"response\":\"hello\",\"conversationHistory\":[]}"
      :> InferenceResponse(JBool(TRUE), JStr("hello"), JList(<<>>)))
  @@ ("{\"success\":false}" :> InferenceResponse(JBool(FALSE), Absent, Absent))
  @@ ("{\"message\":\"hi\"}" :> ChatRequest(JStr("hi"), Absent))

\* json.loads on a text: the document it denotes, or JSONDecodeError.
JsonLoads(text) ==
  IF text \in DOMAIN CompactDocs THEN Ok(CompactDocs[text])
  ELSE IF \E v \in JsonUniverse : DumpsOf[v] = text
  THEN Ok(CHOOSE v \in JsonUniverse : DumpsOf[v] = text)
  ELSE Raise("JSONDecodeError", "Expecting value: line 1 column 1 (char 0)")

(***************************************************************************)
(* Bytes of a reply body: the text they decode to once every byte that is  *)
(* not UTF-8 is dropped, and whether there was such a byte.                *)
(***************************************************************************)
Bytes(text) == [text |-> text, bad |-> FALSE]
BadBytes(text) == [text |-> text, bad |-> TRUE]
BytesTruthy(b) == b.text # "" \/ b.bad
DecodeStrict(b) ==
  IF b.bad
  THEN Raise("UnicodeDecodeError",
             "'utf-8' codec can't decode byte 0xff in position 0: invalid start byte")
  ELSE Ok(b.text)
DecodeIgnore(b) == b.text

(***************************************************************************)
(* Python operations on parsed values.                                     *)
(***************************************************************************)
Substring(s, sub) ==
  \E i \in 1..(Len(s) - Len(sub) + 1) : SubSeq(s, i, i + Len(sub) - 1) = sub

\* k in v
PyContains(v, k) ==
  CASE v.t = "dict" -> Ok(Has(v, k))
    [] v.t = "list" -> Ok(\E i \in 1..Len(v.l) : v.l[i] = JStr(k))
    [] v.t = "str" -> Ok(Substring(v.s, k))
    [] OTHER -> Raise("TypeError",
                      "argument of type '" \o PyTypeName(v) \o "' is not iterable")

\* v[k] for a string key k
PyGetItem(v, k) ==
  CASE v.t = "dict" -> IF Has(v, k) THEN Ok(Lookup(v, k)) ELSE Raise("KeyError", k)
    [] v.t = "str" -> Raise("TypeError", "string indices must be integers, not 'str'")
    [] v.t = "list" -> Raise("TypeError", "list indices must be integers or slices, not str")
    [] OTHER -> Raise("TypeError", "'" \o PyTypeName(v) \o "' object is not subscriptable")

\* v.get(k, default)
PyGet(v, k, default) ==
  IF v.t = "dict" THEN Ok(IF Has(v, k) THEN Lookup(v, k) ELSE default)
  ELSE Raise("AttributeError", "'" \o PyTypeName(v) \o "' object has no attribute 'get'")

(***************************************************************************)
(* The inbound events.                                                     *)
(***************************************************************************)
Claims(e, u) == JDict(OptItem("email", e) \o OptItem("cognito:username", u))
ClaimsFields ==
  {Absent, JNull}
    \cup { Claims(e, u) : e \in {Absent, JStr("a@example.com")}, u \in {Absent, JStr("alice")} }
Authorizer(c) == JDict(OptItem("claims", c))
AuthorizerFields == {Absent, JNull} \cup { Authorizer(c) : c \in ClaimsFields }
RequestContext(a) == JDict(OptItem("authorizer", a))
ContextFields == {Absent, JNull} \cup { RequestContext(a) : a \in AuthorizerFields }

BodyTexts == { DumpsOf[v] : v \in RequestDocs } \cup { "not json", "{\"message\":\"hi\"}" }
BodyFields == {Absent, JNull} \cup { JStr(x) : x \in BodyTexts }

InboundEvent(b, rc) == JDict(OptItem("body", b) \o OptItem("requestContext", rc))
Events == { InboundEvent(b, rc) : b \in BodyFields, rc \in ContextFields }

(***************************************************************************)
(* What the remote endpoint does with the one POST it may receive.         *)
(***************************************************************************)
NoHeader == [present |-> FALSE]
Header(v) == [present |-> TRUE, value |-> v]
ContentTypeHeaders ==
  { NoHeader, Header("application/json"), Header("Application/JSON; charset=utf-8"),
    Header("text/html") }

ReplyBodies ==
  { Bytes(DumpsOf[v]) : v \in ReplyDocs }
    \cup { Bytes("{\"success\":true,\"response\":\"hello\",\"conversationHistory\":[]}"),
           Bytes("{\"success\":false}"), Bytes("not json"), Bytes(""),
           Bytes("<html>Bad Gateway</html>"), BadBytes("{\"success\": true}") }

Statuses == {200, 201, 204, 404, 503}
\* A 204 reply carries no body.
Response(st, h, b) == [kind |-> "response", status |-> st, header |-> h, body |-> b]
Responses ==
  { Response(st, h, b) : st \in Statuses \ {204}, h \in ContentTypeHeaders, b \in ReplyBodies }
    \cup { Response(204, h, Bytes("")) : h \in ContentTypeHeaders }
NetworkFailures ==
  { [kind |-> "URLError", reason |-> "[Errno 111] Connection refused"],
    [kind |-> "URLError", reason |-> "timed out"],
    [kind |-> "TimeoutError", reason |-> "timed out"] }
Behaviours == Responses \cup NetworkFailures

(***************************************************************************)
(* Library pieces the handler relies on.                                   *)
(***************************************************************************)
LowerChar(c) ==
  LET up == "ABCDEFGHIJKLMNOPQRSTUVWXYZ"
      lo == "abcdefghijklmnopqrstuvwxyz"
  IN  IF \E i \in 1..Len(up) : SubSeq(up, i, i) = c
      THEN LET i == CHOOSE i \in 1..Len(up) : SubSeq(up, i, i) = c IN SubSeq(lo, i, i)
      ELSE c
RECURSIVE Lower(_)
Lower(s) ==
  IF Len(s) = 0 THEN ""
  ELSE IF Len(s) = 1 THEN LowerChar(s)
  ELSE LET h == Len(s) \div 2
       IN  Lower(SubSeq(s, 1, h)) \o Lower(SubSeq(s, h + 1, Len(s)))
RECURSIVE Strip(_)
Strip(s) ==
  IF s = "" THEN ""
  ELSE IF SubSeq(s, 1, 1) = " " THEN Strip(SubSeq(s, 2, Len(s)))
  ELSE IF SubSeq(s, Len(s), Len(s)) = " " THEN Strip(SubSeq(s, 1, Len(s) - 1))
  ELSE s
\* The part of s before the first occurrence of the character c (all of s if none).
Before(s, c) ==
  IF \E i \in 1..Len(s) : SubSeq(s, i, i) = c
  THEN LET i == CHOOSE i \in 1..Len(s) :
                  SubSeq(s, i, i) = c /\ \A j \in 1..(i - 1) : SubSeq(s, j, j) # c
       IN  SubSeq(s, 1, i - 1)
  ELSE s
Count(s, c) == Cardinality({ i \in 1..Len(s) : SubSeq(s, i, i) = c })

\* response.info().get_content_type()
GetContentType(h) ==
  IF ~h.present THEN "text/plain"
  ELSE LET ctype == Lower(Strip(Before(h.value, ";")))
       IN  IF Count(ctype, "/") # 1 THEN "text/plain" ELSE ctype

\* The scheme urllib.request.Request finds in a URL: one or more characters
\* other than "/" and ":" followed by ":".
HasScheme(url) ==
  \E i \in 2..Len(url) :
    SubSeq(url, i, i) = ":" /\ \A j \in 1..(i - 1) : SubSeq(url, j, j) \notin {"/", ":"}

UrlopenTimeout == 30

(***************************************************************************)
(* lambda_handler, step by step.  A step yields [ok |-> TRUE, val, out] or  *)
(* [ok |-> FALSE, exc, out]; out is what the step printed.  `logging` is   *)
(* TRUE in the program; FALSE gives the handler without its diagnostic     *)
(* steps, the reference that the logging claim compares against.           *)
(***************************************************************************)
Done(v, out) == [ok |-> TRUE, val |-> v, out |-> out]
Fail(exc, out) == [ok |-> FALSE, exc |-> exc, out |-> out]
LogLine(logging, text) == IF logging THEN <<text>> ELSE <<>>

\* The authenticated user: user_info and the line printed for it.
UserInfoStep(ev) ==
  IF ~Has(ev, "requestContext") THEN Done(JNull, <<>>)
  ELSE
    LET rc == Lookup(ev, "requestContext")
        hasAuth == PyContains(rc, "authorizer")
    IN  IF ~hasAuth.ok THEN Fail(hasAuth.exc, <<>>)
        ELSE IF ~hasAuth.val THEN Done(JNull, <<>>)
        ELSE
          LET auth == PyGetItem(rc, "authorizer")
              user_info == IF auth.ok THEN PyGetItem(auth.val, "claims") ELSE auth
          IN  IF ~user_info.ok THEN Fail(user_info.exc, <<>>)
              ELSE
                LET email == PyGet(user_info.val, "email", JNull)
                    name == IF Truthy(email.val) THEN email.val
                            ELSE PyGet(user_info.val, "cognito:username", JNull).val
                IN  IF ~email.ok THEN Fail(email.exc, <<>>)
                    ELSE Done(user_info.val, <<"Authenticated user: " \o PyStr(name)>>)

\* json.loads(event['body'])
LoadBody(ev) ==
  LET raw == PyGetItem(ev, "body")
  IN  IF ~raw.ok THEN raw
      ELSE IF raw.val.t = "str" THEN JsonLoads(raw.val.s)
      ELSE Raise("TypeError",
                 "the JSON object must be str, bytes or bytearray, not "
                   \o PyTypeName(raw.val))

\* body.get('conversationHistory', [])
BodyGetHistory(body) == PyGet(body, "conversationHistory", JList(<<>>))

\* The request body parsed into message and conversation_history.
ParseStep(ev) ==
  LET body == LoadBody(ev)
      msg == PyGetItem(body.val, "message")
      hist == BodyGetHistory(body.val)
  IN  IF ~body.ok THEN body
      ELSE IF ~msg.ok THEN msg
      ELSE IF ~hist.ok THEN hist
      ELSE Ok([message |-> msg.val, conversation_history |-> hist.val])

\* request_payload_to_fastapi
PayloadDropsHistory(msg, hist) ==
  JDict(<< <<"message", msg>>, <<"conversationHistory", JList(<<>>)>> >>)
RequestPayload(msg, hist) ==
  JDict(<< <<"message", msg>>, <<"conversationHistory", hist>> >>)

\* urllib.request.Request(FASTAPI_ENDPOINT_URL, data=..., headers=..., method='POST')
MakeRequest(url, payload) ==
  IF ~HasScheme(url) THEN Raise("ValueError", "unknown url type: '" \o url \o "'")
  ELSE Ok([url |-> url, method |-> "POST", content_type |-> "application/json",
           data |-> Bytes(JsonDumps(payload)), timeout |-> UrlopenTimeout])

\* urllib.error.HTTPError(url, code, msg, hdrs, fp); fp is the open response
\* when urlopen raises it, and whatever the caller passed otherwise.
HTTPError(code, msg, fp) == [type |-> "HTTPError", arg |-> msg, code |-> code, fp |-> fp]
Stream(b) == [kind |-> "stream", body |-> b]
RawBytes(b) == [kind |-> "bytes", body |-> b]
FpTruthy(fp) == fp.kind = "stream" \/ BytesTruthy(fp.body)
\* e.read(): delegated to fp, which has a read method only if it is a stream.
FpRead(fp) ==
  IF fp.kind = "stream" THEN Ok(fp.body)
  ELSE Raise("AttributeError", "'bytes' object has no attribute 'read'")

ReasonPhrase(code) ==
  CASE code = 404 -> "Not Found"
    [] code = 503 -> "Service Unavailable"
    [] OTHER -> "Error"

\* urllib.request.urlopen(req, timeout=30): the response, or what it raises.
Urlopen(beh) ==
  CASE beh.kind = "URLError" -> Raise("URLError", beh.reason)
    [] beh.kind = "TimeoutError" -> Raise("TimeoutError", beh.reason)
    [] beh.kind = "response" ->
         IF beh.status \in 200..299 THEN Ok(beh)
         ELSE [ok |-> FALSE,
               exc |-> HTTPError(beh.status, ReasonPhrase(beh.status), Stream(beh.body))]

\* except urllib.error.HTTPError as e
HandleHTTPError(exc, out, logging) ==
  LET body == IF FpTruthy(exc.fp) THEN FpRead(exc.fp) ELSE Ok(Bytes("No error body"))
      error_body == DecodeIgnore(body.val)
  IN  IF ~body.ok THEN Fail(body.exc, out)
      ELSE Fail(Exc("Exception",
                    "Failed to connect to the inference API (HTTP "
                      \o ToString(exc.code) \o "): " \o error_body),
                out \o LogLine(logging, "HTTPError calling FastAPI service: "
                                 \o ToString(exc.code) \o " " \o exc.arg
                                 \o ". Body: " \o error_body))

\* except urllib.error.URLError as e
HandleURLError(exc, out, logging) ==
  Fail(Exc("Exception", "Failed to connect to the inference API (URL Error): " \o exc.arg),
       out \o LogLine(logging, "URLError calling FastAPI service: " \o exc.arg))

\* except json.JSONDecodeError as e
HandleJSONDecodeErrorReraises(exc, out, logging) == Fail(exc, out)
HandleJSONDecodeError(exc, out, logging) ==
  Fail(Exc("Exception", "Failed to parse response from the inference API."),
       out \o LogLine(logging, "Failed to decode JSON response from FastAPI: " \o exc.arg))

\* The except clauses of the inner try, in their order; what none of them
\* matches goes on to the outer try.
InnerExcept(exc, out, logging) ==
  IF IsInstance(exc, "HTTPError") THEN HandleHTTPError(exc, out, logging)
  ELSE IF IsInstance(exc, "URLError") THEN HandleURLError(exc, out, logging)
  ELSE IF IsInstance(exc, "JSONDecodeError") THEN HandleJSONDecodeError(exc, out, logging)
  ELSE Fail(exc, out)

\* Everything up to the point where the POST leaves.
Prepare(ev, url, logging) ==
  LET out1 == LogLine(logging, "Received event: " \o JsonDumps(ev))
      user == IF logging THEN UserInfoStep(ev) ELSE Done(JNull, <<>>)
      parsed == ParseStep(ev)
      msg == parsed.val.message
      hist == parsed.val.conversation_history
      payload == RequestPayload(msg, hist)
      out2 == out1 \o user.out
               \o LogLine(logging, "Processing message: " \o PyStr(msg))
               \o LogLine(logging, "Calling FastAPI endpoint: " \o url
                                     \o " with payload: " \o JsonDumps(payload))
      req == MakeRequest(url, payload)
  IN  IF ~user.ok THEN Fail(user.exc, out1)
      ELSE IF ~parsed.ok THEN Fail(parsed.exc, out1 \o user.out)
      ELSE IF ~req.ok THEN InnerExcept(req.exc, out2, logging)
      ELSE Done([message |-> msg, conversation_history |-> hist, request |-> req.val], out2)

\* api_response_data.get("conversationHistory", conversation_history)
UpdatedHistoryDropsRequest(api, hist) == PyGet(api, "conversationHistory", JList(<<>>)).val
UpdatedHistory(api, hist) == PyGet(api, "conversationHistory", hist).val

\* not api_response_data.get("success") or "response" not in api_response_data
InvalidResponseIgnoresSuccess(api, success) == ~PyContains(api, "response").val
InvalidResponse(api, success) == ~Truthy(success) \/ ~PyContains(api, "response").val

\* The checks on the parsed reply and the two values taken from it.
Validate(api, hist, logging) ==
  LET out == LogLine(logging, "FastAPI response: " \o JsonDumps(api))
      success == PyGet(api, "success", JNull)
  IN  IF ~success.ok THEN InnerExcept(success.exc, out, logging)
      ELSE IF InvalidResponse(api, success.val)
      THEN InnerExcept(Exc("Exception", "Invalid response from FastAPI service"),
                       out, logging)
      ELSE Done([assistant_response |-> Lookup(api, "response"),
                 updated_conversation_history |-> UpdatedHistory(api, hist)], out)

\* From urlopen to the values of the success envelope.
Receive(beh, hist, logging) ==
  LET r == Urlopen(beh)
      resp == r.val
      ctype == GetContentType(resp.header)
      text == DecodeStrict(resp.body)
      api == JsonLoads(text.val)
  IN  IF ~r.ok THEN InnerExcept(r.exc, <<>>, logging)
      ELSE IF resp.status # 200
      THEN InnerExcept(HTTPError(resp.status,
                                 "FastAPI service returned status " \o ToString(resp.status),
                                 RawBytes(resp.body)),
                       <<>>, logging)
      ELSE IF ctype # "application/json"
      THEN InnerExcept(Exc("Exception",
                           "FastAPI service returned non-JSON response: "
                             \o DecodeIgnore(resp.body)),
                       LogLine(logging, "Unexpected content type: " \o ctype), logging)
      ELSE IF ~text.ok THEN InnerExcept(text.exc, <<>>, logging)
      ELSE IF ~api.ok THEN InnerExcept(api.exc, <<>>, logging)
      ELSE Validate(api.val, hist, logging)

(***************************************************************************)
(* The two envelopes and the outer except clause.                          *)
(***************************************************************************)
CorsHeaders ==
  ("Content-Type" :> "application/json")
  @@ ("Access-Control-Allow-Origin" :> "*")
  @@ ("Access-Control-Allow-Headers"
        :> "Content-Type,X-Amz-Date,Authorization,X-Api-Key,X-Amz-Security-Token")
  @@ ("Access-Control-Allow-Methods" :> "OPTIONS,POST")

SuccessBody(response, history) ==
  JDict(<< <<"success", JBool(TRUE)>>, <<"response", response>>,
           <<"conversationHistory", history>> >>)
FailureBody(text) == JDict(<< <<"success", JBool(FALSE)>>, <<"error", JStr(text)>> >>)

SuccessEnvelope(response, history) ==
  [statusCode |-> 200, headers |-> CorsHeaders,
   body |-> JsonDumps(SuccessBody(response, history))]
FailureEnvelope(exc) ==
  [statusCode |-> 500, headers |-> CorsHeaders, body |-> JsonDumps(FailureBody(ExcStr(exc)))]

NoValue == [t |-> "unset"]
NoError == [type |-> "none", arg |-> ""]
NoResult == [kind |-> "none"]
Returned(env) == [kind |-> "return", envelope |-> env]
Escaped(exc) == [kind |-> "raise", exc |-> exc]

\* except Exception as error
CatchesOnlyLookupError(exc) == IsInstance(exc, "LookupError")
Catches(exc) == IsInstance(exc, "Exception")

\* How an invocation ends once a step has raised or the reply has been accepted.
Finish(step, logging) ==
  IF step.ok
  THEN [result |-> Returned(SuccessEnvelope(step.val.assistant_response,
                                            step.val.updated_conversation_history)),
        error |-> NoError, out |-> step.out]
  ELSE IF Catches(step.exc)
  THEN [result |-> Returned(FailureEnvelope(step.exc)), error |-> step.exc,
        out |-> step.out \o LogLine(logging, "Error: " \o ExcStr(step.exc))]
  ELSE [result |-> Escaped(step.exc), error |-> NoError, out |-> step.out]

\* The whole of lambda_handler(event, context) against a remote that behaves as beh.
Handler(ev, beh, url, logging) ==
  LET p == Prepare(ev, url, logging)
      r == Receive(beh, p.val.conversation_history, logging)
      f == Finish(IF p.ok THEN [r EXCEPT !.out = p.out \o r.out] ELSE p, logging)
  IN  [result |-> f.result, error |-> f.error, out |-> f.out,
       posts |-> IF p.ok THEN <<p.val.request>> ELSE <<>>]

(***************************************************************************)
(* The state machine: invocations one after another in one process.        *)
(***************************************************************************)
\* os.environ.get("FASTAPI_ENDPOINT_URL", "YOUR_FASTAPI_NGROK_URL/predict")
EnvironGet(environ) ==
  IF environ.present THEN environ.value ELSE "YOUR_FASTAPI_NGROK_URL/predict"
Environs == { NoHeader, Header("https://abc123.ngrok.io/predict") }

\* lambda_handler assigns to no module-level name: the endpoint an invocation
\* leaves behind is the one it found, however it ended.
EndpointResetOnError(url, err) ==
  IF err = NoError THEN url ELSE "YOUR_FASTAPI_NGROK_URL/predict"
EndpointAfter(url, err) == url

Init ==
  /\ FASTAPI_ENDPOINT_URL \in { EnvironGet(e) : e \in Environs }
  /\ pc = "idle"
  /\ event = NoValue
  /\ remote = NoValue
  /\ message = NoValue
  /\ conversation_history = NoValue
  /\ posts = <<>>
  /\ stdout = <<>>
  /\ error = NoError
  /\ result = NoResult
  /\ remembered = [set |-> FALSE]

\* lambda_handler is entered with an event; it runs until it returns or until
\* its POST is on the wire.
InvokeFrom(E, B) ==
  /\ \E ev \in { e \in E : pc = "idle" } :
     \E p \in { Prepare(ev, FASTAPI_ENDPOINT_URL, TRUE) } :
           /\ event' = ev
           /\ \E beh \in B : remote' = beh
           /\ IF p.ok
              THEN /\ FASTAPI_ENDPOINT_URL' = FASTAPI_ENDPOINT_URL
                   /\ message' = p.val.message
                   /\ conversation_history' = p.val.conversation_history
                   /\ posts' = <<p.val.request>>
                   /\ stdout' = p.out
                   /\ error' = NoError
                   /\ result' = NoResult
                   /\ pc' = "urlopen"
              ELSE \E f \in { Finish(p, TRUE) } :
                   /\ FASTAPI_ENDPOINT_URL' = EndpointAfter(FASTAPI_ENDPOINT_URL, f.error)
                   /\ message' = NoValue
                   /\ conversation_history' = NoValue
                   /\ posts' = <<>>
                   /\ stdout' = f.out
                   /\ error' = f.error
                   /\ result' = f.result
                   /\ pc' = "done"

Invoke == InvokeFrom(Events, Behaviours) /\ UNCHANGED remembered

\* urlopen comes back (a response or an exception) and the handler runs to its end.
UrlopenReturns ==
  /\ pc = "urlopen"
  /\ \E f \in { Finish(Receive(remote, conversation_history, TRUE), TRUE) } :
         /\ FASTAPI_ENDPOINT_URL' = EndpointAfter(FASTAPI_ENDPOINT_URL, f.error)
         /\ stdout' = stdout \o f.out
         /\ error' = f.error
         /\ result' = f.result
  /\ pc' = "done"
  /\ UNCHANGED <<event, remote, message, conversation_history, posts, remembered>>

\* The envelope (or the exception) goes to the caller and the frame is gone:
\* nothing of the invocation stays in the process.
Return ==
  /\ pc = "done"
  /\ pc' = "idle"
  /\ event' = NoValue
  /\ remote' = NoValue
  /\ message' = NoValue
  /\ conversation_history' = NoValue
  /\ posts' = <<>>
  /\ stdout' = <<>>
  /\ error' = NoError
  /\ result' = NoResult
  /\ UNCHANGED <<FASTAPI_ENDPOINT_URL, remembered>>

Next == Invoke \/ UrlopenReturns \/ Return

Spec == Init /\ [][Next]_vars

(***************************************************************************)
(* Repeated invocations: an observer keeps one finished invocation (its    *)
(* event, what the remote did, what came back) to compare later ones with. *)
(***************************************************************************)
RepeatBodies ==
  { JStr(DumpsOf[ChatRequest(JStr("hi"), h)]) : h \in {Absent} \cup Histories }
    \cup { JStr("not json") }
RepeatEvents ==
  { InboundEvent(b, rc) :
      b \in RepeatBodies,
      rc \in {Absent, RequestContext(Authorizer(Claims(JStr("a@example.com"), Absent)))} }
RepeatBehaviours ==
  { Response(200, Header("application/json"),
             Bytes(DumpsOf[InferenceResponse(JBool(TRUE), JStr("hello"), h)])) :
      h \in {Absent} \cup Histories }
    \cup { Response(503, Header("text/html"), Bytes("<html>Bad Gateway</html>")),
           Response(200, Header("application/json"), Bytes("{\"success\":false}")),
           [kind |-> "URLError", reason |-> "[Errno 111] Connection refused"] }

\* The observer counts, up to MaxSince, the invocations begun since the one it keeps.
InvokeRepeat ==
  /\ InvokeFrom(RepeatEvents, RepeatBehaviours)
  /\ remembered' = IF remembered.set /\ remembered.since < MaxSince
                   THEN [remembered EXCEPT !.since = @ + 1]
                   ELSE remembered

Remember ==
  /\ pc = "done"
  /\ remembered' = [set |-> TRUE, since |-> 0,
                    event |-> event, remote |-> remote, result |-> result]
  /\ remembered' # remembered
  /\ UNCHANGED <<FASTAPI_ENDPOINT_URL, pc, event, remote, message, conversation_history,
                 posts, stdout, error, result>>

NextRepeat == InvokeRepeat \/ UrlopenReturns \/ Return \/ Remember

SpecRepeat == Init /\ [][NextRepeat]_vars

(***************************************************************************)
(* Vocabulary of the properties: what an observer outside the handler sees *)
(* of the event, of the reply and of the returned envelope.                *)
(***************************************************************************)
Field(d, k) == IF Has(d, k) THEN Lookup(d, k) ELSE Absent
StartsWith(s, pre) == Len(s) >= Len(pre) /\ SubSeq(s, 1, Len(pre)) = pre
EndsWith(s, suf) == Len(s) >= Len(suf) /\ SubSeq(s, Len(s) - Len(suf) + 1, Len(s)) = suf

\* The document in the event's body, when the body is a text that parses.
BodyDoc(ev) ==
  IF Field(ev, "body").t = "str" THEN JsonLoads(Field(ev, "body").s)
  ELSE Raise("TypeError", "no text")
BodyHasMessage(ev) ==
  BodyDoc(ev).ok /\ BodyDoc(ev).val.t = "dict" /\ Has(BodyDoc(ev).val, "message")
RequestHistory(ev) ==
  IF Has(BodyDoc(ev).val, "conversationHistory")
  THEN Lookup(BodyDoc(ev).val, "conversationHistory")
  ELSE JList(<<>>)

\* The invocation is over and the remote endpoint has answered its POST.
Answered == pc = "done" /\ posts # <<>> /\ remote.kind = "response"
JsonContentType(beh) == GetContentType(beh.header) = "application/json"
ReplyDoc(beh) == IF beh.body.bad THEN Raise("UnicodeDecodeError", "") ELSE JsonLoads(beh.body.text)
GoodReply(beh) ==
  /\ beh.status = 200
  /\ JsonContentType(beh)
  /\ ReplyDoc(beh).ok
  /\ ReplyDoc(beh).val.t = "dict"
  /\ Has(ReplyDoc(beh).val, "success")
  /\ Truthy(Lookup(ReplyDoc(beh).val, "success"))
  /\ Has(ReplyDoc(beh).val, "response")

Envelope == result.envelope
Succeeded == pc = "done" /\ result.kind = "return" /\ Envelope.statusCode = 200
Failed == pc = "done" /\ result.kind = "return" /\ Envelope.statusCode = 500
\* The error text an API client reads in a failure envelope.
FailurePrefix == "{\"success\": false, \"error\": \""
ErrorText == ExcStr(error)

(***************************************************************************)
(* C1. lambda_handler is total: whatever the event and whatever the remote *)
(* endpoint does, the invocation ends by returning an envelope, never by   *)
(* an exception leaving the handler; every path on which something was     *)
(* raised returns statusCode 500 with the four fixed headers and a body     *)
(* {success: false, error: <message>} whose message is not empty.          *)
(***************************************************************************)
C1_Total ==
  pc = "done" =>
    /\ result.kind = "return"
    /\ Envelope.statusCode \in {200, 500}
    /\ Envelope.headers = CorsHeaders
    /\ DOMAIN Envelope.headers =
         {"Content-Type", "Access-Control-Allow-Origin", "Access-Control-Allow-Headers",
          "Access-Control-Allow-Methods"}
    /\ (error # NoError <=> Envelope.statusCode = 500)
    /\ (Envelope.statusCode = 500 =>
          /\ ErrorText # ""
          /\ Envelope.body = FailurePrefix \o JsonEscape(ErrorText) \o "\"}")

\* An event whose body is not valid JSON has ended in a failure envelope.
C1_Witness ==
  /\ Failed
  /\ Field(event, "body") = JStr("not json")
  /\ error.type = "JSONDecodeError"
  /\ Envelope.body
       = "{\"success\": false, \"error\": \"Expecting value: line 1 column 1 (char 0)\"}"

C3_HistoryFallback ==
  Succeeded =>
    LET reply == ReplyDoc(remote).val
        history == IF Has(reply, "conversationHistory")
                   THEN Lookup(reply, "conversationHistory")
                   ELSE RequestHistory(event)
    IN  Envelope.body = "{\"success\": true, \"response\": "
                          \o JsonDumps(Lookup(reply, "response"))
                          \o ", \"conversationHistory\": " \o JsonDumps(history) \o "}"

\* The remote omitted the history and the request carried a non-empty one.
C3_Witness ==
  /\ Succeeded
  /\ ~Has(ReplyDoc(remote).val, "conversationHistory")
  /\ RequestHistory(event) = JList(<<Turn>>)
  /\ EndsWith(Envelope.body,
              "\"conversationHistory\": [{\"role\": \"user\", \"content\": \"hi\"}]}")

(***************************************************************************)
(* C4. For every remote reply whose HTTP status is not exactly 200 (4xx,   *)
(* 5xx, and other 2xx such as 201 or 204, with an empty or a non-empty     *)
(* body, whatever its content type) the handler returns statusCode 500     *)
(* with an error message that carries the status code and the reply's raw  *)
(* body text.                                                              *)
(***************************************************************************)
C4_Claim ==
  (Answered /\ remote.status # 200) =>
    /\ Failed
    /\ Substring(ErrorText, ToString(remote.status))
    /\ Substring(ErrorText, remote.body.text)

(***************************************************************************)
(* C5. For every remote reply with HTTP status 200 that is a protocol      *)
(* error (a content type other than application/json, or a JSON content    *)
(* type with a body that cannot be parsed as JSON) the handler returns     *)
(* statusCode 500 with an error message that embeds the reply's raw body   *)
(* text or the parse diagnostic; for a non-JSON content type the error     *)
(* contains the raw body text.                                             *)
(***************************************************************************)
ProtocolError(beh) == beh.status = 200 /\ (~JsonContentType(beh) \/ ~ReplyDoc(beh).ok)
ParseDiagnostic(beh) ==
  IF beh.body.bad THEN DecodeStrict(beh.body).exc.arg ELSE JsonLoads(beh.body.text).exc.arg

C5_Claim ==
  (Answered /\ ProtocolError(remote)) =>
    /\ Failed
    /\ IF ~JsonContentType(remote)
       THEN Substring(ErrorText, remote.body.text)
       ELSE \/ Substring(ErrorText, remote.body.text)
            \/ Substring(ErrorText, ParseDiagnostic(remote))

\* C5 as the code has it: the raw body text for a non-JSON content type, the
\* decoder's diagnostic for a JSON body that is not UTF-8, and one fixed
\* message, with neither body nor diagnostic in it, for a JSON body that is
\* UTF-8 but not JSON.
C5_Amended ==
  (Answered /\ ProtocolError(remote)) =>
    /\ Failed
    /\ IF ~JsonContentType(remote)
       THEN ErrorText = "FastAPI service returned non-JSON response: " \o remote.body.text
       ELSE IF remote.body.bad
       THEN ErrorText = ParseDiagnostic(remote)
       ELSE /\ ErrorText = "Failed to parse response from the inference API."
            /\ ~Substring(ErrorText, ParseDiagnostic(remote))

\* A 200 application/json reply whose body is not JSON has been turned into
\* the fixed message.
C5_Witness ==
  /\ Answered
  /\ remote.status = 200
  /\ JsonContentType(remote)
  /\ remote.body = Bytes("not json")
  /\ Envelope.body
       = "{\"success\": false, \"error\": \"Failed to parse response from the inference API.\"}"

(***************************************************************************)
(* C6. For every remote reply with status 200 and JSON content type whose  *)
(* body parses as JSON but whose success is not truthy or whose response   *)
(* is absent (a parsed value that is not an object included) the handler   *)
(* returns statusCode 500 with the generic "invalid response" message, and *)
(* never a 200 envelope.                                                   *)
(***************************************************************************)
C6_Claim ==
  (Answered /\ remote.status = 200 /\ JsonContentType(remote) /\ ReplyDoc(remote).ok
     /\ ~GoodReply(remote)) =>
    /\ Failed
    /\ ErrorText = "Invalid response from FastAPI service"

(***************************************************************************)
(* C7. The authorization context never changes the result: an event that   *)
(* differs from the one handled only in requestContext (absent; without    *)
(* authorizer; authorizer with or without claims; claims with or without   *)
(* email / cognito:username) gives, against the same remote behaviour, the *)
(* same outbound request and the same envelope.                            *)
(***************************************************************************)
ClaimedContexts ==
  {Absent, RequestContext(Absent), RequestContext(Authorizer(Absent))}
    \cup { RequestContext(Authorizer(Claims(e, u))) :
             e \in {Absent, JStr("a@example.com")}, u \in {Absent, JStr("alice")} }

C7_Claim ==
  (pc = "done" /\ Field(event, "requestContext") \in ClaimedContexts) =>
    \A rc \in ClaimedContexts :
      \E h \in { Handler(InboundEvent(Field(event, "body"), rc), remote,
                         FASTAPI_ENDPOINT_URL, TRUE) } :
        h.result = result /\ h.posts = posts

(***************************************************************************)
(* C8. Single attempt: an invocation issues at most one POST, a failed     *)
(* attempt is not followed by another, no POST is issued when the request  *)
(* body cannot be parsed or has no message, and the one POST goes to the   *)
(* configured endpoint with the request's message and conversationHistory  *)
(* as the remote parses them from the wire.                                *)
(***************************************************************************)
C8_SingleAttempt ==
  /\ Len(posts) <= 1
  /\ (pc # "idle" /\ ~BodyHasMessage(event)) => posts = <<>>
  /\ posts # <<>> =>
       LET sent == JsonLoads(posts[1].data.text)
       IN  /\ posts[1].method = "POST"
           /\ posts[1].url = FASTAPI_ENDPOINT_URL
           /\ ~posts[1].data.bad
           /\ sent.ok
           /\ sent.val.t = "dict"
           /\ [i \in 1..Len(sent.val.items) |-> sent.val.items[i][1]]
                = <<"message", "conversationHistory">>
           /\ Lookup(sent.val, "message") = Lookup(BodyDoc(event).val, "message")
           /\ Lookup(sent.val, "conversationHistory") = RequestHistory(event)

\* A failed attempt (HTTP 503) that carried a non-empty history: one POST, no more.
C8_Witness ==
  /\ Failed
  /\ Answered
  /\ remote.status = 503
  /\ Len(posts) = 1
  /\ RequestHistory(event) = JList(<<Turn>>)

(***************************************************************************)
(* C9. No state persists across invocations: an invocation with the same   *)
(* event and the same remote behaviour as an earlier one returns the same  *)
(* envelope, whatever ran before or in between, and FASTAPI_ENDPOINT_URL   *)
(* never changes.                                                          *)
(***************************************************************************)
SameAsRemembered ==
  pc = "done" /\ remembered.set /\ remembered.event = event /\ remembered.remote = remote

C10_Claim ==
  pc = "done" =>
    \E h \in { Handler(event, remote, FASTAPI_ENDPOINT_URL, FALSE) } :
      h.result = result /\ h.posts = posts

====
